---- MODULE Spec2Model ----
(***************************************************************************)
(* Model of the SSE stream decoder of aiyou-go-sdk (src/stream.go):        *)
(* streamReader.readEvent (the event framer, on top of bufio.Reader) and   *)
(* processStream (the aggregator), driven over a byte stream that the      *)
(* underlying io.Reader delivers in arbitrary pieces.                      *)
(*                                                                         *)
(* A byte string is a sequence of one-symbol strings.  The bytes of the    *)
(* framing layer are modelled one by one ("d","a","t","a",":"," ","\r",    *)
(* "\n"); the JSON text inside a data line is modelled by tokens, each     *)
(* standing for a fixed piece of JSON text:                                *)
(*    "O"  {"choices":[            "Z"  ]}            ","  ,               *)
(*    "A"  {"index":0,"delta":{"content":"a"}}                             *)
(*    "B"  {"index":1,"delta":{"content":"b"}}                             *)
(*    "E"  {"index":2,"delta":{"content":""}}                              *)
(*    "D"  [DONE]                  "X"  {invalid json}                     *)
(*                                                                         *)
(* The second half models the client around the decoder: the Option        *)
(* functions on Options (SpecOptions), and Completion and ListModels with  *)
(* their input validation, retry loop, status handling, JSON decoding and  *)
(* the debug read-ahead in front of processStream (SpecClient).            *)
(***************************************************************************)
EXTENDS Integers, Sequences, FiniteSets, TLC

VARIABLES
    input,      \* the complete byte content of the underlying stream
    pos,        \* number of bytes of input the underlying reader has delivered
    src,        \* the underlying reader: "open", "eof" (has returned io.EOF), "failed" (a non-EOF error)
    readAfterFail, \* the underlying reader was read again after it had failed
    rbuf,       \* bufio.Reader: bytes read from the underlying reader, not yet consumed
    rerr,       \* bufio.Reader: pending error ("none", io.EOF, ErrRead)
    buffer,     \* streamReader.buffer, the accumulation buffer
    pc,         \* "call", "readline", "handle", "done"
    rets,       \* history: what each finished readEvent call returned and found
    result,     \* processStream: the strings.Builder
    ret,        \* what the caller of readEvent returned: [str, err]
    cpc,        \* Completion / ListModels: "idle", "loop", "request", "stream", "returned"; options: "options"
    call,       \* the call: [fn, token, message, opts]
    options,    \* the Options the call works with
    attempt,    \* the loop variable of the retry loop
    hist,       \* history: the outcome of each client.Do so far
    delay,      \* what getRetryDelay returned for the sleep before the coming request
    lastErr,    \* lastErr of the retry loop, an error chain
    cret,       \* what the call returned: [val, err]
    peek        \* debug: bytes.NewReader(body[:n]), the bytes not yet read back from it

\* the variables of the client layer
cvars == <<cpc, call, options, attempt, hist, delay, lastErr, cret, peek>>

vars == <<input, pos, src, readAfterFail, rbuf, rerr, buffer, pc, rets, result, ret,
          cpc, call, options, attempt, hist, delay, lastErr, cret, peek>>

\* ------------------------------------------------------------------ bounds

MaxPieces == 3
MaxChunk == 1

\* ------------------------------------------------------------------ bytes

NL == "\n"

\* bytes.TrimSpace's white space, as far as the alphabet has it
Space == {" ", "\r", NL}

DataPrefix == <<"d", "a", "t", "a", ":", " ">>

HasPrefix(s, p) == Len(s) >= Len(p) /\ SubSeq(s, 1, Len(p)) = p

TrimPrefix(s, p) == IF HasPrefix(s, p) THEN SubSeq(s, Len(p) + 1, Len(s)) ELSE s

RECURSIVE TrimLeft(_)
TrimLeft(s) == IF s # <<>> /\ Head(s) \in Space THEN TrimLeft(Tail(s)) ELSE s

RECURSIVE TrimRight(_)
TrimRight(s) ==
    IF s # <<>> /\ s[Len(s)] \in Space THEN TrimRight(SubSeq(s, 1, Len(s) - 1)) ELSE s

TrimSpace(s) == TrimRight(TrimLeft(s))

HasNL(s) == \E i \in 1..Len(s) : s[i] = NL

\* the index of the last newline instead of the first
IndexNLLast(s) == CHOOSE i \in 1..Len(s) : s[i] = NL /\ \A j \in (i + 1)..Len(s) : s[j] # NL

\* bufio.Reader.ReadBytes('\n'): index of the first newline of s (s has one)
IndexNL(s) == CHOOSE i \in 1..Len(s) : s[i] = NL /\ \A j \in 1..(i - 1) : s[j] # NL

RECURSIVE Flatten(_)
Flatten(ss) == IF ss = <<>> THEN <<>> ELSE Head(ss) \o Flatten(Tail(ss))

\* ------------------------------------------------------------------ errors

Nil == "nil"
EOF == "io.EOF"
ErrRead == "ErrRead"
ErrStreamCorrupted == "ErrStreamCorrupted"

\* ------------------------------------------------------------------ JSON

Done == <<"D">>

ChoiceTok == {"A", "B", "E"}

Content(tok) == CASE tok = "A" -> <<"a">>
                  [] tok = "B" -> <<"b">>
                  [] OTHER -> <<>>

JSONSpace == {" ", "\r", NL}

NoSpace(p) == SelectSeq(p, LAMBDA b : b \notin JSONSpace)

\* json.Unmarshal(data, &resp) succeeds
Decodable(p) ==
    LET q == NoSpace(p)
        n == Len(q)
    IN  /\ n >= 2
        /\ q[1] = "O"
        /\ q[n] = "Z"
        /\ \/ n = 2
           \/ /\ n % 2 = 1
              /\ \A i \in 2..(n - 1) :
                    IF i % 2 = 0 THEN q[i] \in ChoiceTok ELSE q[i] = ","

\* resp.Choices[i].Delta.Content of a decodable payload, in array order
Choices(p) ==
    LET q == NoSpace(p)
        k == (Len(q) - 1) \div 2
    IN  [i \in 1..k |-> Content(q[2 * i])]

\* streamChoice.Index of a choice entry
Index(tok) == CASE tok = "A" -> 0
                [] tok = "B" -> 1
                [] OTHER -> 2

\* resp.Choices of a decodable payload: the index and the content of each entry,
\* in array order
ChoiceEntries(p) ==
    LET q == NoSpace(p)
        k == (Len(q) - 1) \div 2
    IN  [i \in 1..k |-> [index |-> Index(q[2 * i]), content |-> Content(q[2 * i])]]

\* the contents of a list of choice entries, concatenated
ContentsOf(es) == Flatten([i \in 1..Len(es) |-> es[i].content])

\* the content of a chunk with its entries in the order of the array
InArrayOrder(p) == ContentsOf(ChoiceEntries(p))

\* the content of a chunk with its entries sorted by their index
InIndexOrder(p) ==
    LET es == ChoiceEntries(p)
        at(k) == SelectSeq(es, LAMBDA e : e.index = k)
    IN  ContentsOf(at(0) \o at(1) \o at(2))

\* ------------------------------------------------------------------ inputs

Data(c) == DataPrefix \o c \o <<NL>>

\* what the input is made of: two whole events (a chunk and a payload that is not
\* JSON, each with its blank line), data lines, [DONE] on a CRLF line, an empty
\* data line, a blank line, a comment, and a data line without its newline
Pieces == {
    Data(<<"O", "A", "Z">>) \o <<NL>>,
    Data(<<"O", "B", ",", "A", "Z">>),
    Data(<<"O", "E", "Z">>),
    Data(<<"O", "Z">>),
    DataPrefix \o <<"D", "\r", NL>>,
    Data(<<"X">>) \o <<NL>>,
    Data(<<>>),
    <<NL>>,
    <<":", "A", NL>>,
    DataPrefix \o <<"O", "B", "Z">>
}

\* what the input of the framer alone is made of: the payloads matter to it only
\* as bytes
FramerPieces == {
    Data(<<"O", "A", "Z">>) \o <<NL>>,
    Data(<<"O", "Z">>),
    DataPrefix \o <<"D", "\r", NL>>,
    Data(<<>>),
    <<NL>>,
    <<":", "A", NL>>,
    DataPrefix \o <<"O", "B", "Z">>
}

\* the lines a stream with other fields is made of: a data line, a blank line, an
\* id: field, data: without the space after it, data: after a leading space
FieldPieces == {
    Data(<<"A">>),
    <<NL>>,
    <<"i", "d", ":", "A", NL>>,
    <<"d", "a", "t", "a", ":", "B", NL>>,
    <<" ">> \o Data(<<"B">>)
}

\* the texts made of at most n of the pieces ps
RECURSIVE Inputs(_, _)
Inputs(ps, n) ==
    IF n = 0 THEN {<<>>}
    ELSE LET prev == Inputs(ps, n - 1)
         IN  prev \cup {p \o t : p \in ps, t \in prev}

\* ------------------------------------------------------------------ readEvent

\* a comment line taken for an event boundary
ClassifyCommentEnds(line) ==
    IF HasPrefix(line, <<":">>) \/ Len(TrimSpace(line)) = 0 THEN "blank"
    ELSE IF HasPrefix(line, DataPrefix) THEN "data"
    ELSE "other"

\* a line that is neither comment nor data taken for an event boundary
ClassifyOtherEnds(line) ==
    IF HasPrefix(line, <<":">>) THEN "comment"
    ELSE IF Len(TrimSpace(line)) = 0 THEN "blank"
    ELSE IF HasPrefix(line, DataPrefix) THEN "data"
    ELSE "blank"

\* the rule readEvent applies to a line that ReadBytes returned without error
Classify(line) ==
    IF HasPrefix(line, <<":">>) THEN "comment"
    ELSE IF Len(TrimSpace(line)) = 0 THEN "blank"
    ELSE IF HasPrefix(line, DataPrefix) THEN "data"
    ELSE "other"

\* the pending content returned together with io.EOF
OnReadErrWithEOF(buf, err) ==
    IF err = EOF /\ Len(buf) > 0
    THEN [data |-> buf, err |-> EOF]
    ELSE [data |-> <<>>, err |-> err]

\* the pending content returned on every error, not only on io.EOF
OnReadErrAnyErr(buf, err) ==
    IF Len(buf) > 0
    THEN [data |-> buf, err |-> Nil]
    ELSE [data |-> <<>>, err |-> err]

\* what readEvent returns when ReadBytes returns the error err
OnReadErr(buf, err) ==
    IF err = EOF /\ Len(buf) > 0
    THEN [data |-> buf, err |-> Nil]
    ELSE [data |-> <<>>, err |-> err]

\* ------------------------------------------------------------------ processStream

\* the loop stops at [DONE]
StepDoneBreaks(data, err) ==
    IF err # Nil THEN (IF err = EOF THEN "break" ELSE "fail")
    ELSE IF Len(data) = 0 THEN "skip"
    ELSE IF data = Done THEN "break"
    ELSE IF ~Decodable(data) THEN "corrupt"
    ELSE "append"

\* [DONE] is not recognised, and goes to the JSON decoder
StepDoneDecoded(data, err) ==
    IF err # Nil THEN (IF err = EOF THEN "break" ELSE "fail")
    ELSE IF Len(data) = 0 THEN "skip"
    ELSE IF ~Decodable(data) THEN "corrupt"
    ELSE "append"

\* a payload that does not decode is skipped
StepSkipsCorrupt(data, err) ==
    IF err # Nil THEN (IF err = EOF THEN "break" ELSE "fail")
    ELSE IF Len(data) = 0 \/ data = Done THEN "skip"
    ELSE IF ~Decodable(data) THEN "skip"
    ELSE "append"

\* io.EOF is returned like any other error
StepEOFFails(data, err) ==
    IF err # Nil THEN "fail"
    ELSE IF Len(data) = 0 \/ data = Done THEN "skip"
    ELSE IF ~Decodable(data) THEN "corrupt"
    ELSE "append"

\* what processStream does with what readEvent returned
Step(data, err) ==
    IF err # Nil THEN (IF err = EOF THEN "break" ELSE "fail")
    ELSE IF Len(data) = 0 \/ data = Done THEN "skip"
    ELSE IF ~Decodable(data) THEN "corrupt"
    ELSE "append"

\* only the first choice of a chunk is appended
AccumulateFirst(res, data) ==
    IF Choices(data) = <<>> THEN res ELSE res \o Choices(data)[1]

\* the choices of a chunk are appended sorted by their index
AccumulateByIndex(res, data) == res \o InIndexOrder(data)

\* result.WriteString of every non-empty choice.Delta.Content, in array order
Accumulate(res, data) ==
    res \o Flatten(SelectSeq(Choices(data), LAMBDA c : c # <<>>))

\* the text accumulated so far is returned with the error
OutcomePartial(kind, res, err) ==
    CASE kind = "break" -> [str |-> res, err |-> Nil]
      [] kind = "fail" -> [str |-> res, err |-> err]
      [] kind = "corrupt" -> [str |-> res, err |-> ErrStreamCorrupted]

\* what processStream returns when its loop ends
Outcome(kind, res, err) ==
    CASE kind = "break" -> [str |-> res, err |-> Nil]
      [] kind = "fail" -> [str |-> <<>>, err |-> err]
      [] kind = "corrupt" -> [str |-> <<>>, err |-> ErrStreamCorrupted]

\* ------------------------------------------------------------------ state

Start ==
    /\ pos = 0
    /\ src = "open"
    /\ readAfterFail = FALSE
    /\ rbuf = <<>>
    /\ rerr = "none"
    /\ buffer = <<>>
    /\ pc = "call"
    /\ rets = <<>>
    /\ result = <<>>
    /\ ret = [str |-> <<>>, err |-> "none"]

\* no call of the client layer is under way
Idle ==
    /\ cpc = "idle"
    /\ call = <<>>
    /\ options = <<>>
    /\ attempt = 0
    /\ hist = <<>>
    /\ delay = 0
    /\ lastErr = <<>>
    /\ cret = <<>>
    /\ peek = <<>>

Init == input \in Inputs(Pieces, MaxPieces) /\ Start /\ Idle

InitFramer == input \in Inputs(FramerPieces, MaxPieces) /\ Start /\ Idle

\* what one Read of the underlying reader can return: n more bytes and an error.
\* A reader at its end keeps returning io.EOF, a failed one keeps failing.
ReadOutcomes ==
    LET avail == Len(input) - pos
    IN  CASE src = "eof" -> {[n |-> 0, err |-> EOF]}
          [] src = "failed" -> {[n |-> 0, err |-> ErrRead]}
          [] OTHER ->
                {o \in [n : {k \in 0..avail : k <= MaxChunk \/ k = avail},
                        err : {"none", EOF, ErrRead}] :
                    /\ ~(o.n = 0 /\ o.err = "none")
                    /\ (o.err = EOF => o.n = avail)}

\* bufio.Reader.fill, called by ReadBytes while the buffered bytes hold no newline
Fill ==
    /\ pc = "readline"
    /\ ~HasNL(rbuf)
    /\ rerr = "none"
    /\ peek = <<>>
    /\ \E o \in ReadOutcomes :
        /\ rbuf' = rbuf \o SubSeq(input, pos + 1, pos + o.n)
        /\ pos' = pos + o.n
        /\ rerr' = o.err
        /\ src' = CASE o.err = EOF -> "eof"
                    [] o.err = ErrRead -> "failed"
                    [] OTHER -> src
    /\ readAfterFail' = (readAfterFail \/ src = "failed")
    /\ UNCHANGED <<input, buffer, pc, rets, result, ret>>
    /\ UNCHANGED cvars

\* readEvent without the reset of its buffer
CallReadEventNoReset ==
    /\ pc = "call"
    /\ pc' = "readline"
    /\ UNCHANGED <<input, pos, src, readAfterFail, rbuf, rerr, buffer, rets, result, ret>>
    /\ UNCHANGED cvars

\* readEvent, entry: s.buffer.Reset()
CallReadEvent ==
    /\ pc = "call"
    /\ buffer' = <<>>
    /\ pc' = "readline"
    /\ UNCHANGED <<input, pos, src, readAfterFail, rbuf, rerr, rets, result, ret>>
    /\ UNCHANGED cvars

\* readEvent returns r = (data, err); the history keeps, with it, the accumulation
\* buffer at that moment, the error ReadBytes had returned, and the number of
\* bytes of the stream ReadBytes has handed out so far
Return(r, lerr) ==
    /\ rets' = Append(rets, [data |-> r.data, err |-> r.err,
                             pending |-> buffer, lerr |-> lerr,
                             upto |-> pos - Len(rbuf')])
    /\ pc' = "handle"

\* every blank line ends an event, whatever the buffer holds
EndsEventOnBlank(kind, buf) == kind = "blank"

\* a blank line ends the event when the buffer holds something
EndsEvent(kind, buf) == kind = "blank" /\ Len(buf) > 0

\* readEvent, one turn of its loop: ReadBytes('\n'), then the rule for the line
ReadLine ==
    /\ pc = "readline"
    /\ HasNL(rbuf) \/ rerr # "none"
    /\ IF HasNL(rbuf)
       THEN LET i == IndexNL(rbuf)
                line == SubSeq(rbuf, 1, i)
                kind == Classify(line)
            IN  /\ rbuf' = SubSeq(rbuf, i + 1, Len(rbuf))
                /\ rerr' = rerr
                /\ IF EndsEvent(kind, buffer)
                   THEN Return([data |-> buffer, err |-> Nil], Nil) /\ UNCHANGED buffer
                   ELSE IF kind = "data"
                   THEN /\ buffer' = buffer \o TrimSpace(TrimPrefix(line, DataPrefix))
                        /\ UNCHANGED <<pc, rets>>
                   ELSE UNCHANGED <<buffer, pc, rets>>
       ELSE /\ rbuf' = <<>>
            /\ rerr' = "none"
            /\ Return(OnReadErr(buffer, rerr), rerr)
            /\ UNCHANGED buffer
    /\ UNCHANGED <<input, pos, src, readAfterFail, result, ret>>
    /\ UNCHANGED cvars

Last == rets[Len(rets)]

\* processStream, one turn of its loop after readEvent has returned
HandleEvent ==
    /\ pc = "handle"
    /\ LET kind == Step(Last.data, Last.err)
       IN  IF kind = "skip"
           THEN pc' = "call" /\ UNCHANGED <<result, ret>>
           ELSE IF kind = "append"
           THEN /\ result' = Accumulate(result, Last.data)
                /\ pc' = "call"
                /\ UNCHANGED ret
           ELSE /\ ret' = Outcome(kind, result, Last.err)
                /\ pc' = "done"
                /\ UNCHANGED result
    /\ UNCHANGED <<input, pos, src, readAfterFail, rbuf, rerr, buffer, rets>>
    /\ UNCHANGED cvars

\* the loop of TestStreamReader: readEvent is called until it returns an error
HandleTest ==
    /\ pc = "handle"
    /\ IF Last.err # Nil
       THEN /\ pc' = "done"
            /\ ret' = [str |-> <<>>, err |-> Last.err]
       ELSE /\ pc' = "call"
            /\ UNCHANGED ret
    /\ UNCHANGED <<input, pos, src, readAfterFail, rbuf, rerr, buffer, rets, result>>
    /\ UNCHANGED cvars

\* processStream over a stream
Next == CallReadEvent \/ Fill \/ ReadLine \/ HandleEvent

Spec == Init /\ [][Next]_vars

\* readEvent alone over a stream, called as TestStreamReader calls it
NextFramer == CallReadEvent \/ Fill \/ ReadLine \/ HandleTest

SpecFramer == InitFramer /\ [][NextFramer]_vars

\* readEvent over streams that hold lines of other fields
InitFields == input \in Inputs(FieldPieces, MaxPieces) /\ Start /\ Idle

SpecFields == InitFields /\ [][NextFramer]_vars

TypeOK ==
    /\ pc \in {"call", "readline", "handle", "done"}
    /\ rerr \in {"none", EOF, ErrRead}
    /\ src \in {"open", "eof", "failed"}
    /\ pos \in 0..Len(input)

\* ------------------------------------------------------------------ reference

\* the payloads readEvent has returned as events, in order
Events ==
    LET ok == SelectSeq(rets, LAMBDA r : r.err = Nil)
    IN  [i \in 1..Len(ok) |-> ok[i].data]

IsPrefix(a, b) == Len(a) <= Len(b) /\ SubSeq(b, 1, Len(a)) = a

\* the complete lines of the text t from its byte i on, each with its newline
RECURSIVE LinesFrom(_, _)
LinesFrom(t, i) ==
    IF \A j \in i..Len(t) : t[j] # NL THEN <<>>
    ELSE LET j == CHOOSE j \in i..Len(t) : t[j] = NL /\ \A k \in i..(j - 1) : t[k] # NL
         IN  <<SubSeq(t, i, j)>> \o LinesFrom(t, j + 1)

LinesOf(t) == LinesFrom(t, 1)

IsCommentLine(l) == l[1] = ":"

\* the event payloads of a list of complete lines that holds no comment line,
\* acc being the content of the data lines since the last event
RECURSIVE FrameLines(_, _)
FrameLines(ls, acc) ==
    IF ls = <<>> THEN (IF acc = <<>> THEN <<>> ELSE <<acc>>)
    ELSE LET l == Head(ls)
         IN  IF TrimSpace(l) = <<>>
             THEN (IF acc = <<>> THEN <<>> ELSE <<acc>>) \o FrameLines(Tail(ls), <<>>)
             ELSE IF HasPrefix(l, DataPrefix)
             THEN FrameLines(Tail(ls), acc \o TrimSpace(SubSeq(l, 7, Len(l))))
             ELSE FrameLines(Tail(ls), acc)

\* the event payloads of a complete SSE text read in one piece
FrameAll(t) == FrameLines(LinesOf(t), <<>>)

\* the bytes of a text after its last newline
RestOf(t) ==
    LET n == Len(Flatten(LinesOf(t)))
    IN  SubSeq(t, n + 1, Len(t))

\* the text without its comment lines (an unterminated last line is a line too)
WithoutComments(t) ==
    LET rest == RestOf(t)
        ls == LinesOf(t) \o (IF rest = <<>> THEN <<>> ELSE <<rest>>)
    IN  Flatten(SelectSeq(ls, LAMBDA l : ~IsCommentLine(l)))

\* the non-empty content fragments of one decodable payload, concatenated in array order
RECURSIVE TextOf(_, _)
TextOf(p, i) ==
    IF i > Len(Choices(p)) THEN <<>>
    ELSE Choices(p)[i] \o TextOf(p, i + 1)

\* the text of a list of event payloads: that of the payloads that are not [DONE]
RECURSIVE TextOfAll(_)
TextOfAll(evs) ==
    IF evs = <<>> THEN <<>>
    ELSE (IF Head(evs) = Done THEN <<>> ELSE TextOf(Head(evs), 1)) \o TextOfAll(Tail(evs))

Malformed(p) == p # <<>> /\ p # Done /\ ~Decodable(p)

\* an event that contributes nothing: empty, [DONE], or a chunk with no non-empty content
Neutral(p) ==
    \/ p = <<>>
    \/ p = Done
    \/ Decodable(p) /\ \A i \in 1..Len(Choices(p)) : Choices(p)[i] = <<>>

\* the caller of readEvent has returned
Finished == pc = "done"

\* ------------------------------------------------------------------ claims

\* C1: when the stream ends cleanly and every framed payload is [DONE] or a
\* decodable chunk, processStream returns a nil error and exactly the
\* concatenation, in event order and then choices order, of the non-empty
\* content fragments of the events that are not [DONE].
C1_Concatenation ==
    (/\ Finished
     /\ Last.lerr = EOF
     /\ \A i \in 1..Len(Events) : ~Malformed(Events[i]))
    => (ret.err = Nil /\ ret.str = TextOfAll(Events))

C1_Witness ==
    /\ Finished
    /\ Last.lerr = EOF
    /\ Events = << <<"O", "B", ",", "A", "Z">>, <<"O", "A", "Z">> >>
    /\ ret = [str |-> <<"b", "a", "a">>, err |-> Nil]

\* C2: a framed payload that is non-empty, not [DONE] and does not decode is the
\* last thing processStream reads: it stops there, whatever preceded, and
\* returns ErrStreamCorrupted; it never goes on to another readEvent call.
C2_CorruptionStops ==
    \A i \in 1..Len(rets) :
        (rets[i].err = Nil /\ Malformed(rets[i].data)) =>
            /\ i = Len(rets)
            /\ pc \in {"handle", "done"}
            /\ pc = "done" => ret = [str |-> <<>>, err |-> ErrStreamCorrupted]

\* a malformed event after a valid one, with bytes of the stream still unread
C2_Witness ==
    /\ Finished
    /\ Len(rets) = 2
    /\ rets[1].data = <<"O", "A", "Z">>
    /\ Malformed(rets[2].data)
    /\ pos < Len(input)
    /\ ret.err = ErrStreamCorrupted

\* C3: the payloads readEvent returns depend only on the bytes of the stream, not
\* on how the reader splits them: at any moment they are a prefix of the payloads
\* of the text read in one piece, and all of them once the stream has ended.
C3_SplitIndependent ==
    pc \in {"handle", "done"} =>
        LET all == FrameAll(input)
        IN  /\ IsPrefix(Events, all)
            /\ (pc = "done" /\ Last.lerr = EOF) => Events = all

\* the reader delivers byte by byte: two events are out, all there are, and the
\* rest of the stream is not yet read
C3_Witness ==
    /\ pc = "handle"
    /\ Events = << <<"O", "A", "Z">>, <<"O", "A", "Z">> >>
    /\ Events = FrameAll(input)
    /\ pos < Len(input)

\* C4: a comment line never takes part in framing: the events are those of the
\* text with its comment lines removed, also when the comment stands between
\* the data lines of one event.
C4_CommentImmunity ==
    Finished =>
        LET all == FrameAll(WithoutComments(input))
        IN  /\ IsPrefix(Events, all)
            /\ Last.lerr = EOF => Events = all

C4_Witness ==
    /\ Finished
    /\ input = Data(<<"O", "Z">>) \o <<":", "A", NL>> \o Data(<<"O", "Z">>)
    /\ Events = << <<"O", "Z", "O", "Z">> >>

\* C5: end-of-input with a non-empty accumulation buffer returns that content
\* once, with a nil error, and the next call returns io.EOF and no payload;
\* end-of-input with an empty buffer returns io.EOF; a payload never comes with
\* an error.
C5_FlushOnce ==
    pc \in {"handle", "done"} =>
    /\ \A i \in 1..Len(rets) :
        /\ (rets[i].lerr = EOF /\ rets[i].pending # <<>>) =>
                /\ rets[i].data = rets[i].pending
                /\ rets[i].err = Nil
                /\ i < Len(rets) =>
                        (rets[i + 1].data = <<>> /\ rets[i + 1].err = EOF)
        /\ (rets[i].lerr = EOF /\ rets[i].pending = <<>>) =>
                (rets[i].data = <<>> /\ rets[i].err = EOF)
        /\ rets[i].err # Nil => rets[i].data = <<>>
    /\ pc = "done" => Last.err # Nil

C5_Witness ==
    /\ pc = "done"
    /\ Len(rets) = 3
    /\ rets[2].lerr = EOF /\ rets[2].data = <<"O", "Z">> /\ rets[2].err = Nil
    /\ rets[3].data = <<>> /\ rets[3].err = EOF

\* C6: [DONE] does not end the loop: processStream returns only after readEvent
\* returned an error or a payload failed to decode, and the text returned is
\* that of all the events, those after a [DONE] included.
C6_DoneNotTerminal ==
    Finished =>
        /\ Last.err # Nil \/ (Malformed(Last.data) /\ ret.err = ErrStreamCorrupted)
        /\ ret.err = Nil =>
                ret.str = TextOfAll(SelectSeq(Events, LAMBDA e : e # Done))

C6_Witness ==
    /\ Finished
    /\ Events = << Done, <<"O", "A", "Z">> >>
    /\ ret = [str |-> <<"a">>, err |-> Nil]

\* C7: when ReadBytes returns an error that is not io.EOF, readEvent returns that
\* error and no payload, also with data accumulated; processStream returns the
\* same error, and the underlying reader is not read again.
C7_ReadErrorVerbatim ==
    /\ ~readAfterFail
    /\ \A i \in 1..Len(rets) :
        rets[i].lerr = ErrRead =>
            /\ rets[i].data = <<>>
            /\ rets[i].err = ErrRead
            /\ i = Len(rets)
            /\ pc \in {"handle", "done"}
            /\ Finished => ret = [str |-> <<>>, err |-> ErrRead]

C7_Witness ==
    /\ Finished
    /\ Last.lerr = ErrRead
    /\ Last.pending # <<>>
    /\ result # <<>>
    /\ ret.err = ErrRead

\* C8: empty payloads, [DONE] events and chunks without non-empty content never
\* produce an error and never change the result: what processStream returns is
\* what the other events alone determine.
C8_NeutralEvents ==
    Finished =>
        LET evs == SelectSeq(Events, LAMBDA e : ~Neutral(e))
        IN  ret = IF \E i \in 1..Len(evs) : Malformed(evs[i])
                  THEN [str |-> <<>>, err |-> ErrStreamCorrupted]
                  ELSE IF Last.err = EOF
                  THEN [str |-> TextOfAll(evs), err |-> Nil]
                  ELSE [str |-> <<>>, err |-> Last.err]

C8_Witness ==
    /\ Finished
    /\ \E e \in {<<"O", "Z">>, <<"O", "E", "Z">>} : Events = << e, <<"O", "A", "Z">> >>
    /\ ret = [str |-> <<"a">>, err |-> Nil]

\* C9: on a zero-length stream the first readEvent call returns io.EOF and no
\* event, and processStream returns the empty string and a nil error.
C9_EmptyInput ==
    (input = <<>> /\ src # "failed") =>
        /\ Events = <<>>
        /\ Len(rets) <= 1
        /\ Len(rets) = 1 => (rets[1].data = <<>> /\ rets[1].err = EOF)
        /\ Finished => ret = [str |-> <<>>, err |-> Nil]

C9_Witness ==
    /\ input = <<>>
    /\ Finished
    /\ Len(rets) = 1
    /\ ret = [str |-> <<>>, err |-> Nil]

\* C10: processStream returns either a nil error with the whole accumulated
\* text, or an error (a read error or ErrStreamCorrupted) with the empty
\* string, also when text had been accumulated before the failure.
C10_NoPartialResult ==
    Finished =>
        \/ ret.err = Nil /\ ret.str = result /\ Last.err = EOF
        \/ ret.err \in {ErrRead, ErrStreamCorrupted} /\ ret.str = <<>>

C10_Witness ==
    /\ Finished
    /\ result # <<>>
    /\ ret = [str |-> <<>>, err |-> ErrStreamCorrupted]

\* ================================================================== options
\* Temperatures are counted in tenths (8 is 0.8), timeouts in seconds, retry
\* delays in a unit of their own.

MaxOpts == 2
MaxRetriesArg == 3

minTemperature == 0
maxTemperature == 10
defaultTemp == 10
defaultTimeout == 30
defaultBaseURL == "https://ai.dragonflygroup.fr/api/v1"

\* the range of temperatures the README documents for WithTemperature, in tenths
readmeMaxTemperature == 20

\* RetryConfig: nil, or a configuration
NilRetry == [nil |-> TRUE, MaxRetries |-> 0, RetryDelay |-> 0, MaxDelay |-> 0]

defaultOptions ==
    [BaseURL |-> defaultBaseURL,
     Temperature |-> defaultTemp,
     Timeout |-> defaultTimeout,
     RetryConfig |-> NilRetry,
     PromptSystem |-> "",
     Stream |-> FALSE,
     Debug |-> FALSE,
     AssistantID |-> ""]

WithTemperature(temp, o) ==
    IF temp < minTemperature \/ temp > maxTemperature
    THEN o
    ELSE [o EXCEPT !.Temperature = temp]

WithTimeout(timeout, o) ==
    IF timeout > 0 THEN [o EXCEPT !.Timeout = timeout] ELSE o

\* one valid argument is enough for the configuration to be set
WithRetryEither(maxRetries, retryDelay, o) ==
    IF maxRetries > 0 \/ retryDelay > 0
    THEN [o EXCEPT !.RetryConfig = [nil |-> FALSE,
                                    MaxRetries |-> maxRetries,
                                    RetryDelay |-> retryDelay,
                                    MaxDelay |-> retryDelay * 4]]
    ELSE o

WithRetry(maxRetries, retryDelay, o) ==
    IF maxRetries > 0 /\ retryDelay > 0
    THEN [o EXCEPT !.RetryConfig = [nil |-> FALSE,
                                    MaxRetries |-> maxRetries,
                                    RetryDelay |-> retryDelay,
                                    MaxDelay |-> retryDelay * 4]]
    ELSE o

WithSystemPrompt(prompt, o) == [o EXCEPT !.PromptSystem = prompt]

WithStream(stream, o) == [o EXCEPT !.Stream = stream]

WithDebug(debug, o) == [o EXCEPT !.Debug = debug]

WithAssistantID(assistantID, o) == [o EXCEPT !.AssistantID = assistantID]

WithBaseURL(url, o) == IF url # "" THEN [o EXCEPT !.BaseURL = url] ELSE o

\* an Option value: the constructor's name and its arguments
Opt(name, n, d, b, s) == [name |-> name, n |-> n, d |-> d, b |-> b, s |-> s]

\* opt(options)
ApplyOption(opt, o) ==
    CASE opt.name = "WithTemperature" -> WithTemperature(opt.n, o)
      [] opt.name = "WithTimeout" -> WithTimeout(opt.n, o)
      [] opt.name = "WithRetry" -> WithRetry(opt.n, opt.d, o)
      [] opt.name = "WithSystemPrompt" -> WithSystemPrompt(opt.s, o)
      [] opt.name = "WithStream" -> WithStream(opt.b, o)
      [] opt.name = "WithDebug" -> WithDebug(opt.b, o)
      [] opt.name = "WithAssistantID" -> WithAssistantID(opt.s, o)
      [] opt.name = "WithBaseURL" -> WithBaseURL(opt.s, o)

\* for _, opt := range opts { opt(options) }
RECURSIVE ApplyOptions(_, _)
ApplyOptions(opts, o) ==
    IF opts = <<>> THEN o
    ELSE ApplyOptions(Tail(opts), ApplyOption(Head(opts), o))

\* the argument values the options are tried with
TemperatureArgs == {-1, 0, 8, 10, 15, 20, 21}
TimeoutArgs == {-1, 0, 5}
\* the retry delay the calls are configured with
RetryDelayArg == 4

DelayArgs == {0 - 1, 0, RetryDelayArg}

OptionArgs ==
    {Opt("WithTemperature", t, 0, FALSE, "") : t \in TemperatureArgs}
    \cup {Opt("WithTimeout", t, 0, FALSE, "") : t \in TimeoutArgs}
    \cup {Opt("WithRetry", n, d, FALSE, "") : n \in (0 - 1)..MaxRetriesArg, d \in DelayArgs}
    \cup {Opt("WithSystemPrompt", 0, 0, FALSE, s) : s \in {"", "prompt"}}
    \cup {Opt("WithStream", 0, 0, b, "") : b \in BOOLEAN}
    \cup {Opt("WithDebug", 0, 0, b, "") : b \in BOOLEAN}
    \cup {Opt("WithAssistantID", 0, 0, FALSE, s) : s \in {"", "assistant"}}
    \cup {Opt("WithBaseURL", 0, 0, FALSE, s) : s \in {"", "http://test"}}

\* the options of a call are being built: defaultOptions(), then the opts in order
InitOptions ==
    /\ input = <<>>
    /\ Start
    /\ cpc = "options"
    /\ call = [fn |-> "options", token |-> "", message |-> "", opts |-> <<>>]
    /\ options = defaultOptions
    /\ attempt = 0
    /\ hist = <<>>
    /\ delay = 0
    /\ lastErr = <<>>
    /\ cret = <<>>
    /\ peek = <<>>

\* one more option is applied
ApplyOpt ==
    /\ cpc = "options"
    /\ Len(call.opts) < MaxOpts
    /\ \E opt \in OptionArgs :
        /\ call' = [call EXCEPT !.opts = Append(@, opt)]
        /\ options' = ApplyOption(opt, options)
    /\ UNCHANGED <<input, pos, src, readAfterFail, rbuf, rerr, buffer, pc, rets, result, ret>>
    /\ UNCHANGED <<cpc, attempt, hist, delay, lastErr, cret, peek>>

NextOptions == ApplyOpt

SpecOptions == InitOptions /\ [][NextOptions]_vars

\* ------------------------------------------------------------------ C16

\* C16: WithTemperature(t) applied to the default options sets Temperature to t
\* for every t from 0.0 to 2.0, both ends included, and leaves the default
\* temperature for t below 0.0 or above 2.0.
C16_TemperatureRange ==
    (cpc = "options" /\ Len(call.opts) = 1 /\ call.opts[1].name = "WithTemperature")
        => LET t == call.opts[1].n
           IN  options.Temperature =
                   IF minTemperature <= t /\ t <= readmeMaxTemperature THEN t ELSE defaultTemp

\* ================================================================== client
\* Completion and ListModels over a server that answers each request as it
\* likes.  An error is the chain of its wrappings, outermost first; nil is the
\* empty chain.

ErrInvalidToken == "ErrInvalidToken"
ErrRateLimit == "ErrRateLimit"
ErrTimeout == "ErrTimeout"
ErrInvalidTemp == "ErrInvalidTemp"
ErrEmptyMessage == "ErrEmptyMessage"
ErrEmptyToken == "ErrEmptyToken"

\* what client.Do returns as its error when Client.Timeout elapses
HTTPTimeout == "http.Client.Timeout exceeded"

\* fmt.Errorf(msg + ": %w", err)
Wrap(msg, err) == <<msg>> \o err

\* errors.Is(err, target)
ErrorsIs(err, target) == \E i \in 1..Len(err) : err[i] = target

StatusOK == 200
StatusCreated == 201
StatusBadRequest == 400
StatusUnauthorized == 401
StatusTooManyRequests == 429
StatusInternalServerError == 500

\* the status codes the server answers with
Statuses == {StatusOK, StatusCreated, StatusBadRequest, StatusUnauthorized,
             StatusTooManyRequests, StatusInternalServerError}

handleHTTPError(status) ==
    CASE status = StatusUnauthorized -> <<ErrInvalidToken>>
      [] status = StatusTooManyRequests -> <<ErrRateLimit>>
      [] status = StatusBadRequest -> <<"bad request">>
      [] OTHER -> <<"HTTP error">>

\* every error status is retried
shouldRetryAny(statusCode) == statusCode >= StatusBadRequest

shouldRetry(statusCode) ==
    statusCode = StatusTooManyRequests \/ statusCode >= StatusInternalServerError

getMaxRetries(config) == IF config.nil THEN 0 ELSE config.MaxRetries

\* the delay after the doubling: delay *= 2 for i = 1 .. attempt - 1
RECURSIVE Doubled(_, _, _)
Doubled(d, i, att) == IF i < att THEN Doubled(d * 2, i + 1, att) ELSE d

\* time.Duration(rand.Float64()*jitterRange*2 - jitterRange), jitterRange being
\* float64(delay) * 0.3: a number of [-jitterRange, jitterRange), cut to an integer
JitterValues(d) ==
    IF d <= 0 THEN {0} ELSE (0 - ((3 * d) \div 10))..((3 * d - 1) \div 10)

\* the values getRetryDelay can return
getRetryDelay(att, config) ==
    IF config.nil THEN {0}
    ELSE LET doubled == Doubled(config.RetryDelay, 1, att)
             capped == IF doubled > config.MaxDelay THEN config.MaxDelay ELSE doubled
         IN  {capped + j : j \in JitterValues(capped)}

\* ------------------------------------------------------------------ bodies

\* a JSON response body: whether it is JSON at all, the key its choices array is
\* under ("response": {"response":{"choices":[..]}}; "choices": {"choices":[..]};
\* "models": the body is the array [{"models":[..]}]), the field of a choice that
\* holds the content ("message" or "delta"), the number of entries, the content
JSONBody(valid, key, field, n, content) ==
    [valid |-> valid, key |-> key, field |-> field, n |-> n, content |-> content]

NoBody == JSONBody(FALSE, "", "", 0, <<>>)

Hi == <<"H", "i">>

\* the body the tests answer a Completion with: {"choices":[{"delta":{"content":"Hi"}}]}
TestBody == JSONBody(TRUE, "choices", "delta", 1, Hi)

\* the bodies an accepted answer comes with when the request is not a streaming
\* one: to Completion, a text that is not JSON, a response object with one choice
\* or none, the body of the tests; to ListModels, a text that is not JSON and a
\* list of models
Bodies(fn) ==
    IF fn = "ListModels"
    THEN {NoBody, JSONBody(TRUE, "models", "name", 1, Hi)}
    ELSE {NoBody,
          JSONBody(TRUE, "response", "message", 1, Hi),
          JSONBody(TRUE, "response", "message", 0, Hi),
          TestBody}

\* json.NewDecoder(teeReader).Decode(&apiResp): the error, and apiResp.Response.Choices
DecodeAPIResponse(b) ==
    IF ~b.valid \/ b.key = "models"
    THEN [err |-> TRUE, Choices |-> <<>>]
    ELSE [err |-> FALSE,
          Choices |-> IF b.key = "response"
                      THEN [i \in 1..b.n |->
                                [Content |-> IF b.field = "message" THEN b.content ELSE <<>>]]
                      ELSE <<>>]

\* the choices array is read where the tests put it: at the top level, under delta
DecodeAPIResponseTopLevel(b) ==
    IF ~b.valid \/ b.key = "models"
    THEN [err |-> TRUE, Choices |-> <<>>]
    ELSE [err |-> FALSE,
          Choices |-> IF b.key = "choices"
                      THEN [i \in 1..b.n |->
                                [Content |-> IF b.field = "delta" THEN b.content ELSE <<>>]]
                      ELSE <<>>]

\* json.NewDecoder(teeReader).Decode(&modelsResp): the error, and the model names
DecodeModels(b) ==
    IF ~b.valid \/ b.key # "models"
    THEN [err |-> TRUE, models |-> <<>>]
    ELSE [err |-> FALSE, models |-> [i \in 1..b.n |-> b.content]]

\* the bodies a 200 answer comes with when the request is a streaming one: none,
\* the stream of the test "streaming response", a stream with a payload that is
\* not JSON, a stream that ends without its blank line
StreamBodies ==
    {<<>>,
     Data(<<"O", "A", "Z">>) \o <<NL>> \o Data(<<"O", "B", "Z">>) \o <<NL>>
         \o Data(<<"D">>) \o <<NL>>,
     Data(<<"O", "A", "Z">>) \o <<NL>> \o Data(<<"X">>) \o <<NL>>,
     Data(<<"O", "A", "Z">>)}

\* the size of the buffer the debug path reads the start of the stream into
PeekSize == 1024

\* ------------------------------------------------------------------ calls

ClientOpts ==
    {t \o r \o st \o d :
        t \in {<<>>, <<Opt("WithTemperature", 21, 0, FALSE, "")>>},
        r \in {<<>>, <<Opt("WithRetry", 1, RetryDelayArg, FALSE, "")>>,
               <<Opt("WithRetry", MaxRetriesArg, RetryDelayArg, FALSE, "")>>},
        st \in {<<>>, <<Opt("WithStream", 0, 0, TRUE, "")>>},
        d \in {<<>>, <<Opt("WithDebug", 0, 0, TRUE, "")>>}}

Calls ==
    {c \in [fn : {"Completion", "ListModels"}, token : {"", "token"},
            message : {"", "Hello"}, opts : ClientOpts] :
        c.fn = "ListModels" => c.message = ""}

\* one client.Do: the status of the response (0: client.Do returned an error),
\* the error, the body of a 200 answer, the bytes the debug path read ahead
Outcome0(status, err, body) ==
    [status |-> status, err |-> err, body |-> body, peeked |-> 0]

\* the stream decoder is not running
StreamOff ==
    /\ input = <<>>
    /\ pos = 0
    /\ src = "open"
    /\ readAfterFail = FALSE
    /\ rbuf = <<>>
    /\ rerr = "none"
    /\ buffer = <<>>
    /\ pc = "off"
    /\ rets = <<>>
    /\ result = <<>>
    /\ ret = [str |-> <<>>, err |-> "none"]

InitClient ==
    /\ StreamOff
    /\ cpc = "entry"
    /\ call = [fn |-> "", token |-> "", message |-> "", opts |-> <<>>]
    /\ options = defaultOptions
    /\ attempt = 0
    /\ hist = <<>>
    /\ delay = 0
    /\ lastErr = <<>>
    /\ cret = [val |-> <<>>, err |-> <<>>]
    /\ peek = <<>>

svars == <<input, pos, src, readAfterFail, rbuf, rerr, buffer, pc, rets, result, ret>>

\* return val, err
ReturnCall(val, err) ==
    /\ cret' = [val |-> val, err |-> err]
    /\ cpc' = "returned"

\* the message is looked at before the token
ValidateMessageFirst(fn, token, message) ==
    IF fn = "Completion" /\ message = "" THEN <<ErrEmptyMessage>>
    ELSE IF token = "" THEN <<ErrEmptyToken>>
    ELSE <<>>

\* the validation of the inputs: the error it ends the call with, or nil
Validate(fn, token, message) ==
    IF token = "" THEN <<ErrEmptyToken>>
    ELSE IF fn = "Completion" /\ message = "" THEN <<ErrEmptyMessage>>
    ELSE <<>>

\* Completion / ListModels from the entry to the retry loop: the validation of the
\* inputs, then the options
Enter ==
    /\ cpc = "entry"
    /\ \E c \in Calls :
        /\ call' = c
        /\ IF Validate(c.fn, c.token, c.message) # <<>>
           THEN ReturnCall(<<>>, Validate(c.fn, c.token, c.message)) /\ UNCHANGED options
           ELSE /\ options' = ApplyOptions(c.opts, defaultOptions)
                /\ cpc' = "loop"
                /\ UNCHANGED cret
    /\ UNCHANGED <<attempt, hist, delay, lastErr, peek>>
    /\ UNCHANGED svars

\* the head of the retry loop: attempt <= maxRetries, and the sleep before a retry
LoopHead ==
    /\ cpc = "loop"
    /\ IF attempt > getMaxRetries(options.RetryConfig)
       THEN /\ ReturnCall(<<>>, Wrap("max retries exceeded", lastErr))
            /\ UNCHANGED delay
       ELSE /\ cpc' = "request"
            /\ delay' \in (IF attempt > 0 THEN getRetryDelay(attempt, options.RetryConfig)
                           ELSE {0})
            /\ UNCHANGED cret
    /\ UNCHANGED <<call, options, attempt, hist, lastErr, peek>>
    /\ UNCHANGED svars

\* continue
Continue(err) ==
    /\ lastErr' = err
    /\ attempt' = attempt + 1
    /\ cpc' = "loop"
    /\ UNCHANGED cret

\* only the statuses that are retried are turned down
AcceptedUnlessRetried(fn, status) == ~shouldRetry(status)

\* the status the call goes on with
Accepted(fn, status) ==
    status = StatusOK \/ (fn = "ListModels" /\ status = StatusCreated)

\* client.Do returns an error
RequestFails ==
    /\ cpc = "request"
    /\ hist' = Append(hist, Outcome0(0, HTTPTimeout, NoBody))
    /\ Continue(Wrap("error executing request", <<HTTPTimeout>>))
    /\ delay' = 0
    /\ UNCHANGED <<call, options, peek>>
    /\ UNCHANGED svars

\* client.Do returns a response whose status is an error status
RequestRefused ==
    /\ cpc = "request"
    /\ \E status \in Statuses :
        /\ ~Accepted(call.fn, status)
        /\ hist' = Append(hist, Outcome0(status, "", NoBody))
        /\ IF shouldRetry(status)
           THEN Continue(handleHTTPError(status))
           ELSE /\ lastErr' = handleHTTPError(status)
                /\ ReturnCall(<<>>, handleHTTPError(status))
                /\ UNCHANGED attempt
    /\ delay' = 0
    /\ UNCHANGED <<call, options, peek>>
    /\ UNCHANGED svars

\* client.Do returns a response the call accepts, and the body is decoded as JSON
RequestDecoded ==
    /\ cpc = "request"
    /\ ~(call.fn = "Completion" /\ options.Stream)
    /\ \E status \in Statuses, b \in Bodies(call.fn) :
        /\ Accepted(call.fn, status)
        /\ hist' = Append(hist, Outcome0(status, "", b))
        /\ IF call.fn = "ListModels"
           THEN LET d == DecodeModels(b)
                IN  IF d.err
                    THEN Continue(Wrap("error decoding response", <<"json">>))
                    ELSE ReturnCall(d.models, <<>>) /\ UNCHANGED <<lastErr, attempt>>
           ELSE LET d == DecodeAPIResponse(b)
                IN  IF d.err
                    THEN Continue(Wrap("error decoding response", <<"json">>))
                    ELSE IF Len(d.Choices) > 0
                    THEN ReturnCall(d.Choices[1].Content, <<>>) /\ UNCHANGED <<lastErr, attempt>>
                    ELSE ReturnCall(<<>>, <<"no content in response">>)
                         /\ UNCHANGED <<lastErr, attempt>>
    /\ delay' = 0
    /\ UNCHANGED <<call, options, peek>>
    /\ UNCHANGED svars

\* client.Do returns 200 to a streaming Completion: the body goes to processStream,
\* in debug mode after its start has been read
RequestStreamed ==
    /\ cpc = "request"
    /\ call.fn = "Completion"
    /\ options.Stream
    /\ \E status \in Statuses :
        /\ Accepted(call.fn, status)
        /\ hist' = Append(hist, Outcome0(status, "", NoBody))
    /\ input' \in StreamBodies
    /\ cpc' = IF options.Debug THEN "peek" ELSE "stream"
    /\ pc' = "call"
    /\ delay' = 0
    /\ UNCHANGED <<call, options, attempt, lastErr, cret, peek>>
    /\ UNCHANGED <<pos, src, readAfterFail, rbuf, rerr, buffer, rets, result, ret>>

\* the bytes read ahead are not put back in front of the body
DebugPeekLost ==
    /\ cpc = "peek"
    /\ \E o \in ReadOutcomes :
        /\ o.n <= PeekSize
        /\ peek' = <<>>
        /\ pos' = pos + o.n
        /\ src' = CASE o.err = EOF -> "eof"
                    [] o.err = ErrRead -> "failed"
                    [] OTHER -> src
        /\ hist' = [hist EXCEPT ![Len(hist)].peeked = o.n]
    /\ cpc' = "stream"
    /\ UNCHANGED <<call, options, attempt, delay, lastErr, cret>>
    /\ UNCHANGED <<input, readAfterFail, rbuf, rerr, buffer, pc, rets, result, ret>>

\* n, _ := teeReader.Read(body), then resp.Body = MultiReader(body[:n], resp.Body)
DebugPeek ==
    /\ cpc = "peek"
    /\ \E o \in ReadOutcomes :
        /\ o.n <= PeekSize
        /\ peek' = SubSeq(input, pos + 1, pos + o.n)
        /\ pos' = pos + o.n
        /\ src' = CASE o.err = EOF -> "eof"
                    [] o.err = ErrRead -> "failed"
                    [] OTHER -> src
        /\ hist' = [hist EXCEPT ![Len(hist)].peeked = o.n]
    /\ cpc' = "stream"
    /\ UNCHANGED <<call, options, attempt, delay, lastErr, cret>>
    /\ UNCHANGED <<input, readAfterFail, rbuf, rerr, buffer, pc, rets, result, ret>>

\* bufio.Reader.fill over the MultiReader while its first reader holds bytes
FillFromPeek ==
    /\ cpc = "stream"
    /\ pc = "readline"
    /\ ~HasNL(rbuf)
    /\ rerr = "none"
    /\ peek # <<>>
    /\ rbuf' = rbuf \o peek
    /\ peek' = <<>>
    /\ UNCHANGED <<cpc, call, options, attempt, hist, delay, lastErr, cret>>
    /\ UNCHANGED <<input, pos, src, readAfterFail, rerr, buffer, pc, rets, result, ret>>

\* an error of processStream is retried like an error of the request
StreamReturnRetries ==
    /\ cpc = "stream"
    /\ pc = "done"
    /\ IF ret.err = Nil
       THEN ReturnCall(ret.str, <<>>) /\ UNCHANGED <<attempt, lastErr>>
       ELSE Continue(<<ret.err>>)
    /\ pc' = "off"
    /\ UNCHANGED <<call, options, hist, delay, peek>>
    /\ UNCHANGED <<input, pos, src, readAfterFail, rbuf, rerr, buffer, rets, result, ret>>

\* return processStream(resp.Body, options)
StreamReturn ==
    /\ cpc = "stream"
    /\ pc = "done"
    /\ ReturnCall(ret.str, IF ret.err = Nil THEN <<>> ELSE <<ret.err>>)
    /\ pc' = "off"
    /\ UNCHANGED <<call, options, attempt, hist, delay, lastErr, peek>>
    /\ UNCHANGED <<input, pos, src, readAfterFail, rbuf, rerr, buffer, rets, result, ret>>

NextClient ==
    \/ Enter
    \/ LoopHead
    \/ RequestFails
    \/ RequestRefused
    \/ RequestDecoded
    \/ RequestStreamed
    \/ DebugPeek
    \/ FillFromPeek
    \/ CallReadEvent
    \/ Fill
    \/ ReadLine
    \/ HandleEvent
    \/ StreamReturn

SpecClient == InitClient /\ [][NextClient]_vars

\* ------------------------------------------------------------------ reference

Returned == cpc = "returned"

\* the outcome of the last client.Do
LastDo == hist[Len(hist)]

\* the call is a streaming Completion
Streaming == call.fn = "Completion" /\ options.Stream

\* the event payloads of a list of complete lines when the read fails after them:
\* the data lines after the last blank line are no event
RECURSIVE FrameLinesCut(_, _)
FrameLinesCut(ls, acc) ==
    IF ls = <<>> THEN <<>>
    ELSE LET l == Head(ls)
         IN  IF TrimSpace(l) = <<>>
             THEN (IF acc = <<>> THEN <<>> ELSE <<acc>>) \o FrameLinesCut(Tail(ls), <<>>)
             ELSE IF HasPrefix(l, DataPrefix)
             THEN FrameLinesCut(Tail(ls), acc \o TrimSpace(SubSeq(l, 7, Len(l))))
             ELSE FrameLinesCut(Tail(ls), acc)

\* what a list of event payloads followed by the read error endErr decodes to, res
\* being the text so far
RECURSIVE StreamResult(_, _, _)
StreamResult(evs, res, endErr) ==
    IF evs = <<>>
    THEN (IF endErr = EOF THEN [val |-> res, err |-> <<>>]
          ELSE [val |-> <<>>, err |-> <<endErr>>])
    ELSE IF Head(evs) = Done THEN StreamResult(Tail(evs), res, endErr)
    ELSE IF ~Decodable(Head(evs)) THEN [val |-> <<>>, err |-> <<ErrStreamCorrupted>>]
    ELSE StreamResult(Tail(evs), res \o TextOf(Head(evs), 1), endErr)

\* what the body decodes to, as a function of its bytes and of where its reader
\* ended or failed
ExpectedStream ==
    IF src = "eof"
    THEN StreamResult(FrameAll(input), <<>>, EOF)
    ELSE StreamResult(FrameLinesCut(LinesOf(SubSeq(input, 1, pos)), <<>>), <<>>, ErrRead)

\* the stream of the test "streaming response"
TestStream ==
    Data(<<"O", "A", "Z">>) \o <<NL>> \o Data(<<"O", "B", "Z">>) \o <<NL>>
        \o Data(<<"D">>) \o <<NL>>

\* a WithTemperature option of the call has an argument outside 0.0 .. 2.0
TemperatureOutOfRange ==
    \E i \in 1..Len(call.opts) :
        /\ call.opts[i].name = "WithTemperature"
        /\ (call.opts[i].n < minTemperature \/ call.opts[i].n > readmeMaxTemperature)

\* ------------------------------------------------------------------ C11

\* C11: debug is pure observability: a streaming Completion returns what the
\* bytes of the body decode to, whether Debug is set or not; the bytes the debug
\* path reads ahead reach processStream, in their place and once.
C11_DebugTransparent ==
    (Returned /\ Streaming /\ hist # <<>> /\ LastDo.status = StatusOK)
        => cret = ExpectedStream

C11_Witness ==
    /\ Returned
    /\ Streaming
    /\ options.Debug
    /\ hist # <<>>
    /\ LastDo.peeked = 1
    /\ input = TestStream
    /\ cret = [val |-> <<"a", "b">>, err |-> <<>>]

\* ------------------------------------------------------------------ C12

\* C12: validation comes before the network: an empty token ends Completion and
\* ListModels with ErrEmptyToken, a non-empty token with an empty message ends
\* Completion with ErrEmptyMessage, and in each case no request was sent.
C12_ValidationFirst ==
    /\ (cpc # "entry" /\ call.token = "")
          => (Returned /\ cret.err = <<ErrEmptyToken>> /\ hist = <<>>)
    /\ (cpc # "entry" /\ call.token # "" /\ call.fn = "Completion" /\ call.message = "")
          => (Returned /\ cret.err = <<ErrEmptyMessage>> /\ hist = <<>>)

C12_Witness ==
    /\ Returned
    /\ call.fn = "Completion"
    /\ call.token = ""
    /\ call.message = ""
    /\ cret.err = <<ErrEmptyToken>>

\* ------------------------------------------------------------------ C13

\* C13: a status that is neither 200, 429 nor 500 and above ends Completion with
\* the attempt that received it, whatever the retry configuration; 401 ends it
\* with ErrInvalidToken.
C13_NoRetryOnClientError ==
    call.fn = "Completion" =>
        \A i \in 1..Len(hist) :
            LET st == hist[i].status
            IN  (st # 0 /\ st # StatusOK /\ st # StatusTooManyRequests
                    /\ st < StatusInternalServerError)
                    => /\ i = Len(hist)
                       /\ Returned
                       /\ cret.err = handleHTTPError(st)
                       /\ (st = StatusUnauthorized => cret.err = <<ErrInvalidToken>>)

C13_Witness ==
    /\ Returned
    /\ call.fn = "Completion"
    /\ options.RetryConfig.MaxRetries = MaxRetriesArg
    /\ Len(hist) = 2
    /\ hist[1].status = StatusTooManyRequests
    /\ hist[2].status = StatusUnauthorized
    /\ cret.err = <<ErrInvalidToken>>

\* ------------------------------------------------------------------ C14

\* C14: with WithRetry(n, d), n >= 1 and d > 0, when the first attempt is answered
\* with 429 and the next one with 200 and a valid body (the body of the tests, or
\* in streaming mode the stream of the tests read to its end), Completion returns
\* the content of the later response with a nil error.
C14_RetryThenContent ==
    (Returned /\ call.fn = "Completion" /\ ~options.RetryConfig.nil
        /\ Len(hist) = 2 /\ hist[1].status = StatusTooManyRequests
        /\ hist[2].status = StatusOK)
        => /\ (~options.Stream /\ hist[2].body = TestBody)
                => cret = [val |-> Hi, err |-> <<>>]
           /\ (options.Stream /\ input = TestStream /\ src = "eof")
                => cret = [val |-> <<"a", "b">>, err |-> <<>>]

\* ------------------------------------------------------------------ C15

\* C15: in non-streaming mode, a 200 answer whose body has a top-level choices
\* array with delta.content = C in its first entry makes Completion return C with
\* a nil error.
C15_TopLevelChoices ==
    (Returned /\ call.fn = "Completion" /\ ~options.Stream /\ hist # <<>>
        /\ LastDo.status = StatusOK /\ LastDo.body = TestBody)
        => cret = [val |-> LastDo.body.content, err |-> <<>>]

\* ------------------------------------------------------------------ C17

\* C17: the stream decoder only ever runs on the body of a response whose status
\* is a 2xx one and passed the status check of the call.
C17_DecoderBehindStatusCheck ==
    pc # "off" =>
        /\ hist # <<>>
        /\ LastDo.status \in 200..299
        /\ Accepted(call.fn, LastDo.status)
        /\ Streaming

C17_Witness ==
    /\ pc = "handle"
    /\ cpc = "stream"
    /\ Len(hist) = 2
    /\ hist[1].status = StatusInternalServerError
    /\ hist[2].status = StatusOK
    /\ result = <<"a">>

\* ------------------------------------------------------------------ C18

\* C18: for every attempt >= 1 and every configuration WithRetry builds, the delay
\* getRetryDelay returns is at most MaxDelay.
C18_DelayAtMostMaxDelay ==
    (cpc = "request" /\ attempt >= 1 /\ ~options.RetryConfig.nil)
        => delay <= options.RetryConfig.MaxDelay

\* ------------------------------------------------------------------ C19

\* C19: when every attempt of Completion or ListModels fails because the client's
\* Timeout elapsed, the error returned is ErrTimeout or wraps it.
C19_TimeoutIsErrTimeout ==
    (Returned /\ hist # <<>> /\ \A i \in 1..Len(hist) : hist[i].err = HTTPTimeout)
        => ErrorsIs(cret.err, ErrTimeout)

\* ------------------------------------------------------------------ C20

\* C20: a Completion configured with WithTemperature(t), t outside the allowed
\* range, sends no request and returns ErrInvalidTemp.
C20_InvalidTempRejected ==
    (call.fn = "Completion" /\ Validate(call.fn, call.token, call.message) = <<>>
        /\ TemperatureOutOfRange)
        => /\ hist = <<>>
           /\ Returned => cret.err = <<ErrInvalidTemp>>

\* ------------------------------------------------------------------ C21

\* the options before the last option was applied
OptionsBefore ==
    ApplyOptions(SubSeq(call.opts, 1, Len(call.opts) - 1), defaultOptions)

\* the option applied last
LastOpt == call.opts[Len(call.opts)]

\* the option has a value the claim calls invalid
InvalidValue(opt) ==
    \/ opt.name = "WithTimeout" /\ opt.n <= 0
    \/ opt.name = "WithBaseURL" /\ opt.s = ""
    \/ opt.name = "WithRetry" /\ (opt.n <= 0 \/ opt.d <= 0)

\* C21: WithTimeout(d) with d <= 0, WithBaseURL("") and WithRetry(n, d) with
\* n <= 0 or d <= 0 leave every field of Options as it was before the option was
\* applied; with a valid value each of them changes its own field only.
C21_InvalidValueChangesNothing ==
    (cpc = "options" /\ call.opts # <<>>) =>
        LET opt == LastOpt
            before == OptionsBefore
        IN  /\ InvalidValue(opt) => options = before
            /\ (opt.name = "WithTimeout" /\ opt.n > 0)
                  => options = [before EXCEPT !.Timeout = opt.n]
            /\ (opt.name = "WithBaseURL" /\ opt.s # "")
                  => options = [before EXCEPT !.BaseURL = opt.s]
            /\ (opt.name = "WithRetry" /\ opt.n > 0 /\ opt.d > 0)
                  => /\ [options EXCEPT !.RetryConfig = before.RetryConfig] = before
                     /\ ~options.RetryConfig.nil
                     /\ options.RetryConfig.MaxRetries = opt.n
                     /\ options.RetryConfig.RetryDelay = opt.d

\* a timeout was set, then WithTimeout(0) was applied: the timeout set is kept
C21_Witness ==
    /\ cpc = "options"
    /\ Len(call.opts) = 2
    /\ call.opts[1] = Opt("WithTimeout", 5, 0, FALSE, "")
    /\ call.opts[2] = Opt("WithTimeout", 0, 0, FALSE, "")
    /\ options.Timeout = 5

\* ------------------------------------------------------------------ C22

\* the lines of a text: those ended by a newline, then what end-of-input ends
AllLines(t) ==
    LET rest == RestOf(t)
    IN  LinesOf(t) \o (IF rest = <<>> THEN <<>> ELSE <<rest>>)

\* the content of a data line: the line without its prefix, trimmed
DataContent(l) == TrimSpace(SubSeq(l, 7, Len(l)))

\* the contents of the data lines among the lines ls, concatenated in line order
RECURSIVE DataOf(_)
DataOf(ls) ==
    IF ls = <<>> THEN <<>>
    ELSE (IF HasPrefix(Head(ls), DataPrefix) THEN DataContent(Head(ls)) ELSE <<>>)
             \o DataOf(Tail(ls))

\* C22: no data line is lost: once the stream has been read to its end, the
\* payloads returned hold, in order, the content of every data line of the
\* input, a last line ended by end-of-input instead of a newline included.
C22_NoDataLineLost ==
    (Finished /\ Last.lerr = EOF) => Flatten(Events) = DataOf(AllLines(input))

\* ------------------------------------------------------------------ C23

\* the bytes ReadBytes had handed out when the call before call i returned
ReadBefore(i) == IF i = 1 THEN 0 ELSE rets[i - 1].upto

\* the lines call i of readEvent read
LinesReadBy(i) == LinesOf(SubSeq(input, ReadBefore(i) + 1, rets[i].upto))

\* the lines the call under way has read so far
LinesReadNow ==
    LinesOf(SubSeq(input, ReadBefore(Len(rets) + 1) + 1, pos - Len(rbuf)))

IsOtherField(l) ==
    /\ TrimSpace(l) # <<>>
    /\ l[1] # ":"
    /\ ~HasPrefix(l, DataPrefix)

\* the text without its lines of other fields
WithoutOtherFields(t) ==
    Flatten(SelectSeq(AllLines(t), LAMBDA l : ~IsOtherField(l)))

\* C24: a non-blank line that starts neither with ":" nor with the six bytes
\* "data: " takes no part in framing: it adds nothing to a payload and ends no
\* event, the payloads are those of the text with such lines removed.
C24_OtherFieldsIgnored ==
    Finished =>
        LET all == FrameAll(WithoutOtherFields(input))
        IN  /\ IsPrefix(Events, all)
            /\ Last.lerr = EOF => Events = all

\* an id: line between the two data lines of one event
C24_Witness ==
    /\ Finished
    /\ input = Data(<<"A">>) \o <<"i", "d", ":", "A", NL>> \o Data(<<"A">>)
    /\ Events = << <<"A", "A">> >>

\* ------------------------------------------------------------------ C27

\* C27: readEvent never returns an empty payload with a nil error: each return
\* is a non-empty payload with nil or no payload with an error; so the skip of
\* processStream is only ever taken for [DONE], never for an empty payload.
C27_NoEmptyEvent ==
    /\ \A i \in 1..Len(rets) :
          \/ rets[i].err = Nil /\ rets[i].data # <<>>
          \/ rets[i].err # Nil /\ rets[i].data = <<>>
    /\ (pc = "handle" /\ Step(Last.data, Last.err) = "skip") => Last.data = Done

\* a blank line, an empty data line and a blank line again: no event at all
C27_Witness ==
    /\ Finished
    /\ input = <<NL>> \o Data(<<>>) \o <<NL>>
    /\ Len(rets) = 1
    /\ Last.err = EOF
    /\ ret = [str |-> <<>>, err |-> Nil]

\* ------------------------------------------------------------------ C26

\* C26: a streamed response is never retried: in a streaming Completion a 200
\* answer is the last request of the call, the attempt counter stays where it
\* was, and what the call returns is what processStream returned, error included.
C26_StreamNeverRetried ==
    Streaming =>
        \A i \in 1..Len(hist) :
            hist[i].status = StatusOK =>
                /\ i = Len(hist)
                /\ attempt = i - 1
                /\ cpc \in {"peek", "stream", "returned"}
                /\ Returned =>
                      cret = [val |-> ret.str,
                              err |-> IF ret.err = Nil THEN <<>> ELSE <<ret.err>>]

\* the stream fails after one retried request, with retries left: the error of
\* processStream is the error of the call
C26_Witness ==
    /\ Returned
    /\ Streaming
    /\ Len(hist) = 2
    /\ hist[1].status = StatusInternalServerError
    /\ LastDo.status = StatusOK
    /\ attempt = 1
    /\ attempt < getMaxRetries(options.RetryConfig)
    /\ cret.err = <<ErrStreamCorrupted>>

\* ------------------------------------------------------------------ C25

\* the chunks processStream has appended so far
Appended ==
    SelectSeq(SubSeq(rets, 1, IF pc = "handle" THEN Len(rets) - 1 ELSE Len(rets)),
              LAMBDA r : Step(r.data, r.err) = "append")

\* C25, as stated: the fragments of the choice entries of each chunk are appended
\* to the result ordered by the index of the entries.
C25_AppendedInIndexOrder ==
    result = Flatten([i \in 1..Len(Appended) |-> InIndexOrder(Appended[i].data)])

\* C25, amended: the fragments of the choice entries of each chunk are appended
\* in the order the entries have in the choices array; their index plays no part.
C25_AppendedInArrayOrder ==
    result = Flatten([i \in 1..Len(Appended) |-> InArrayOrder(Appended[i].data)])

\* a chunk that lists the entry of index 1 before the entry of index 0
C25_Witness ==
    /\ pc = "call"
    /\ Len(rets) = 1
    /\ rets[1].data = <<"O", "B", ",", "A", "Z">>
    /\ ChoiceEntries(rets[1].data)[1].index > ChoiceEntries(rets[1].data)[2].index
    /\ result = <<"b", "a">>

====
